---------------------------- MODULE Spec2Model ----------------------------
(***************************************************************************)
(* Verification model of the GNAN fingerprinting engine                    *)
(* (src/apps/engine/gnan.py, class ContentFingerprinter) and of the way    *)
(* the API layer (src/apps/api/main.py) stores and rehydrates its records. *)
(*                                                                         *)
(* Encoding of Python values                                               *)
(*   str              a sequence of one-character strings                  *)
(*   dict fingerprint a record with one fixed set of fields; the field     *)
(*                    "keys" is the set of keys the dict really has and    *)
(*                    "nulls" the keys whose value is None.  A field whose *)
(*                    key is absent holds the empty value of its type, so  *)
(*                    `k in fp` is  k \in fp.keys  and never a test on the *)
(*                    value.                                               *)
(*   float score      an integer number of 1/ScoreUnit, or NaN.  Every     *)
(*                    score the bounded inputs can produce is an exact     *)
(*                    multiple of 1/ScoreUnit (vectors have integer norms).*)
(*   md5 / sha256     collision-free tagged copies of their input          *)
(***************************************************************************)
EXTENDS Integers, Sequences, FiniteSets, TLC

VARIABLES
    files,        \* file system read by the image and audio extractors
    clock,        \* datetime.utcnow()
    unavailable,  \* perceptual-hash algorithms this runtime cannot compute
    req,          \* builder: the (content, content_type) under study
    first,        \* builder: outcome of the first generate_fingerprint(req)
    last,         \* builder: outcome of the latest generate_fingerprint(req)
    fp1,          \* scorer: first argument of _calculate_similarity
    fp2,          \* scorer: second argument
    score,        \* scorer: outcome of _calculate_similarity(fp1, fp2)
    fingerprint,  \* match engine: the query
    database,     \* match engine: the candidate pool
    threshold,    \* match engine: the threshold, in 1/ScoreUnit
    idx,          \* match engine: position of the for loop
    matches,      \* match engine: the local list `matches`
    pc,           \* match engine: "loop", "done"
    calls,        \* threads on the global instance: each call's arguments and locals
    source_text,     \* n-grams: the text handed to _fingerprint_text
    ngram_signature, \* n-grams: the list stored under "ngram_signature"
    claim_store,     \* ownership claims: the status stored under claim:<claim_id>, "none" when no key
    claim_call,      \* ownership claims: the latest protocol call and its outcome
    auth_nonces,     \* SIWE: the AuthNonce rows, committed state
    siwe_requests,   \* SIWE: each authenticate_siwe request, its nonce and position
    mint_status,     \* NFT: mint_status of the certificate row, "none" before it exists
    mint_tasks,      \* NFT: position of each mint_nft_background task
    chain_mints,     \* NFT: number of mint_on_blockchain calls made for the certificate
    content_rows,    \* similarity check: the content_fingerprints table, in insertion order
    attributions,    \* similarity check: the Attribution rows, each with the check that made it
    pending_checks,  \* similarity check: ids whose check_for_similar_content task has not run
    attr_clock,      \* similarity check: datetime.utcnow()
    creator_row,        \* create_fingerprint: the demo Creator row (exists, total_creations)
    fingerprint_rows,   \* number of ContentFingerprint rows committed for the demo creator
    create_requests     \* per POST /api/fingerprint request: position and the session's loaded values

vars == <<files, clock, unavailable, req, first, last, fp1, fp2, score,
          fingerprint, database, threshold, idx, matches, pc, calls,
          source_text, ngram_signature,
          claim_store, claim_call,
          auth_nonces, siwe_requests,
          mint_status, mint_tasks, chain_mints,
          content_rows, attributions, pending_checks, attr_clock,
          creator_row, fingerprint_rows, create_requests>>

buildVars == <<files, clock, unavailable, req, first, last>>
scoreVars == <<fp1, fp2, score>>
matchVars == <<fingerprint, database, threshold, idx, matches, pc>>
engineVars == <<buildVars, scoreVars, matchVars, calls>>
textVars == <<source_text, ngram_signature>>
claimVars == <<claim_store, claim_call>>
siweVars == <<auth_nonces, siwe_requests>>
mintVars == <<mint_status, mint_tasks, chain_mints>>
attrVars == <<content_rows, attributions, pending_checks, attr_clock>>
createVars == <<creator_row, fingerprint_rows, create_requests>>
appVars == <<textVars, claimVars, siweVars, mintVars, attrVars, createVars>>

-----------------------------------------------------------------------------
(* Bounds *)

MaxPool == 3      \* longest candidate pool handed to find_similar_content
MaxClock == 1     \* latest clock reading
MaxConcPool == 2  \* longest candidate pool of a concurrent find_similar_content
MaxTextLen == 7   \* longest enumerated text, in characters
MaxRows == 3      \* most rows of content_fingerprints
MaxAttrClock == 1 \* latest created_at

-----------------------------------------------------------------------------
(* Python helpers *)

Whitespace == {" ", "\t", "\n", "\r", "\f"}

\* str.split(): the maximal runs of non-whitespace characters, in order
Split(s) ==
    LET starts == {i \in DOMAIN s :
                      s[i] \notin Whitespace /\ (i = 1 \/ s[i - 1] \in Whitespace)}
        ends == {i \in DOMAIN s :
                    s[i] \notin Whitespace /\ (i = Len(s) \/ s[i + 1] \in Whitespace)}
        Nth(S, k) == CHOOSE i \in S : Cardinality({x \in S : x < i}) = k - 1
    IN  [k \in 1..Cardinality(starts) |-> SubSeq(s, Nth(starts, k), Nth(ends, k))]

RECURSIVE CountChar(_, _)
CountChar(s, c) ==
    IF s = <<>> THEN 0
    ELSE (IF Head(s) = c THEN 1 ELSE 0) + CountChar(Tail(s), c)

\* len(s.split('\n'))
LineCount(s) == CountChar(s, "\n") + 1

Range(s) == {s[i] : i \in DOMAIN s}

md5(s) == <<"md5:">> \o s

sha256_16(s) == <<"sha256[:16]:">> \o s

-----------------------------------------------------------------------------
(* Contents, files and the external libraries, as tables over the bounded  *)
(* inputs                                                                  *)

cFox == <<"f", "o", "x">>
cDog == <<"d", "o", "g">>
cTwo == <<"a", " ", "b">>
cFx  == <<"d", "e", "f", " ", "f", "(", "x", ")", ":", "x">>
cFy  == <<"d", "e", "f", " ", "f", "(", "y", ")", ":", "y">>
cAsg == <<"x", "=", "1">>
cBad == <<"d", "e", "f", " ", "(">>
cCls == <<"c", "l", "a", "s", "s", " ", "A", ":", "0">>
cCR  == <<"x", "=", "1", "\r">>
cP1  == <<"p", "1">>
cP2  == <<"p", "2">>

Contents == {cFox, cDog, cTwo, cFx, cFy, cAsg, cBad, cCls, cCR, cP1, cP2}
Paths == {cP1, cP2}

SupportedKinds == {"text", "image", "audio", "code"}
Kinds == SupportedKinds \cup {"video"}

Metas == {{}, {"query"}}

Blobs == {"png1", "png2", "wav1", "wav2"}
Missing == "missing"

\* the file a path names in file system fs
FileAt(fs, path) == IF path \in Paths THEN fs[path] ELSE Missing

\* text-embedding-ada-002 answer for a text (when the call succeeds)
OpenAIEmbedding(text) ==
    CASE text = cFox -> <<3, 4>>
      [] text = cDog -> <<4, 3>>
      [] text = cTwo -> <<5, 0>>
      [] OTHER       -> <<0, 5>>

\* SentenceTransformer('all-MiniLM-L6-v2').encode(text).tolist()
SentenceEncode(text) ==
    CASE text = cFox -> <<3, 4>>
      [] text = cDog -> <<4, 3>>
      [] text = cTwo -> <<-3, -4>>
      [] text = cBad -> <<0, 0>>
      [] OTHER       -> <<0, 5>>

\* ast.parse(code): TRUE when the text is a Python module
Parses(code) == code \in {cFox, cDog, cFx, cFy, cAsg, cCls, cCR, cP1, cP2}

\* names of the FunctionDef nodes of ast.walk(tree)
FunctionDefs(code) ==
    IF code \in {cFx, cFy} THEN <<"f">> ELSE <<>>

\* names of the ClassDef nodes of ast.walk(tree)
ClassDefs(code) == IF code = cCls THEN <<"A">> ELSE <<>>

\* ast.dump(tree, annotate_fields=False)
AstDump(code) ==
    CASE code = cFx  -> <<"Module", "FunctionDef", "f", "arg", "x", "Expr", "Name", "x", "Load">>
      [] code = cFy  -> <<"Module", "FunctionDef", "f", "arg", "y", "Expr", "Name", "y", "Load">>
      [] code \in {cAsg, cCR} ->
                        <<"Module", "Assign", "Name", "x", "Store", "Constant", "1">>
      [] code = cCls -> <<"Module", "ClassDef", "A", "Expr", "Constant", "0">>
      [] OTHER       -> <<"Module", "Expr", "Name">> \o code \o <<"Load">>

IsImage(blob) == blob \in {"png1", "png2"}
IsAudio(blob) == blob \in {"wav1", "wav2"}

\* a 64-bit perceptual hash as 16 hexadecimal digits; the two leading digits vary
Hex16(a, b) == <<a, b, 0, 0, 0, 0, 0, 0, 0, 0, 0, 0, 0, 0, 0, 0>>

\* str(imagehash.<alg>(image)) for the four algorithms
PerceptualHashes(blob) ==
    IF blob = "png1"
    THEN [phash |-> Hex16(15, 0), dhash |-> Hex16(3, 1),
          ahash |-> Hex16(0, 0),  whash |-> Hex16(8, 8)]
    ELSE [phash |-> Hex16(0, 15), dhash |-> Hex16(3, 0),
          ahash |-> Hex16(15, 15), whash |-> Hex16(8, 8)]

\* np.mean(librosa.feature.mfcc(...), axis=1).tolist()
MfccMean(blob) == IF blob = "wav1" THEN <<-4, 3>> ELSE <<-3, 4>>

-----------------------------------------------------------------------------
(* Fingerprint records *)

\* the dict {} in the encoding above: no key, every field empty
Blank ==
    [keys |-> {}, nulls |-> {},
     fingerprint_id |-> <<>>, content_type |-> "", timestamp |-> 0,
     metadata |-> {}, content_hash |-> <<>>,
     openai_embedding |-> <<>>, local_embedding |-> <<>>,
     word_count |-> 0, char_count |-> 0, error |-> "",
     perceptual_hashes |-> <<>>, mfcc_features |-> <<>>,
     token_hash |-> <<>>, ast_hash |-> <<>>,
     functions |-> <<>>, classes |-> <<>>, line_count |-> 0]

\* `k in d`
Has(d, k) == k \in d.keys

\* d.get(k) is None
IsNone(d, k) == k \notin d.keys \/ k \in d.nulls

\* d.update(b): the keys of b are added to d, their values overwritten
Update(d, b) ==
    [f \in DOMAIN d |->
        CASE f = "keys"  -> d.keys \cup b.keys
          [] f = "nulls" -> (d.nulls \ b.keys) \cup b.nulls
          [] OTHER       -> IF f \in b.keys THEN b[f] ELSE d[f]]

\* what a call either returns or raises
Returned(v) == [status |-> "return", exc |-> "", value |-> v]
Raised(e) == [status |-> "raise", exc |-> e, value |-> Blank]
NotCalled == [status |-> "none", exc |-> "", value |-> Blank]

\* the outcomes of the three outbound calls one text extraction can make
TextEnvs == [openai : BOOLEAN, local_try : BOOLEAN, local_except : BOOLEAN]

HashAlgorithms == {"phash", "dhash", "ahash", "whash"}

\* the sets of algorithms a runtime may lack: none, or whash (its wavelet
\* library is an optional install)
Runtimes == {{}, {"whash"}}

\* what one call meets: the outcomes of the text extractor's outbound calls
\* and the algorithms that raise in this runtime
Envs == [openai : BOOLEAN, local_try : BOOLEAN, local_except : BOOLEAN,
         unavailable : Runtimes]

WithRuntime(te, un) ==
    [openai |-> te.openai, local_try |-> te.local_try,
     local_except |-> te.local_except, unavailable |-> un]

-----------------------------------------------------------------------------
(* Feature extractors *)

_fingerprint_text(text, env) ==
    IF env.openai /\ env.local_try
    THEN Returned([Blank EXCEPT
            !.keys = {"content_hash", "openai_embedding", "local_embedding",
                      "word_count", "char_count", "ngram_signature", "language"},
            !.content_hash = md5(text),
            !.openai_embedding = OpenAIEmbedding(text),
            !.local_embedding = SentenceEncode(text),
            !.word_count = Len(Split(text)),
            !.char_count = Len(text)])
    ELSE \* except Exception: the handler calls the local model again, unguarded
         IF env.local_except
         THEN Returned([Blank EXCEPT
                 !.keys = {"content_hash", "local_embedding", "word_count",
                           "char_count", "error"},
                 !.content_hash = md5(text),
                 !.local_embedding = SentenceEncode(text),
                 !.word_count = Len(Split(text)),
                 !.char_count = Len(text),
                 !.error = IF env.openai THEN "local model error"
                                         ELSE "embedding provider error"])
         ELSE Raised("local model error")

_fingerprint_image(image_path, fs, env) ==
    \* one try block around Image.open and the four hash calls
    IF IsImage(FileAt(fs, image_path)) /\ env.unavailable = {}
    THEN Returned([Blank EXCEPT
            !.keys = {"content_hash", "perceptual_hashes", "dimensions",
                      "mode", "file_size"},
            !.content_hash = md5(<<FileAt(fs, image_path)>>),
            !.perceptual_hashes = PerceptualHashes(FileAt(fs, image_path))])
    ELSE Returned([Blank EXCEPT
            !.keys = {"error"},
            !.error = "Image fingerprinting failed"])

_fingerprint_audio(audio_path, fs) ==
    IF IsAudio(FileAt(fs, audio_path))
    THEN Returned([Blank EXCEPT
            !.keys = {"content_hash", "duration", "sample_rate", "tempo",
                      "spectral_centroid_mean", "spectral_rolloff_mean",
                      "mfcc_features", "file_size"},
            !.content_hash = md5(<<FileAt(fs, audio_path)>>),
            !.mfcc_features = MfccMean(FileAt(fs, audio_path))])
    ELSE Returned([Blank EXCEPT
            !.keys = {"error"},
            !.error = "Audio fingerprinting failed"])

\* tokens = code.replace(' ', '').replace('\n', '').replace('\t', '')
Tokens(code) == SelectSeq(code, LAMBDA c : c \notin {" ", "\n", "\t"})

\* _fingerprint_code without the try: a syntax error propagates
_fingerprint_code_NoFallback(code) ==
    IF Parses(code)
    THEN Returned([Blank EXCEPT
            !.keys = {"content_hash", "token_hash", "ast_hash", "line_count",
                      "non_empty_lines", "functions", "classes", "imports",
                      "complexity_score"},
            !.content_hash = md5(code),
            !.token_hash = md5(Tokens(code)),
            !.ast_hash = md5(AstDump(code)),
            !.line_count = LineCount(code),
            !.functions = FunctionDefs(code),
            !.classes = ClassDefs(code)])
    ELSE Raised("SyntaxError")

_fingerprint_code(code) ==
    IF Parses(code)
    THEN Returned([Blank EXCEPT
            !.keys = {"content_hash", "token_hash", "ast_hash", "line_count",
                      "non_empty_lines", "functions", "classes", "imports",
                      "complexity_score"},
            !.content_hash = md5(code),
            !.token_hash = md5(Tokens(code)),
            !.ast_hash = md5(AstDump(code)),
            !.line_count = LineCount(code),
            !.functions = FunctionDefs(code),
            !.classes = ClassDefs(code)])
    ELSE Returned([Blank EXCEPT
            !.keys = {"content_hash", "line_count", "char_count", "error"},
            !.content_hash = md5(code),
            !.line_count = LineCount(code),
            !.char_count = Len(code),
            !.error = "AST parsing failed"])

-----------------------------------------------------------------------------
(* Fingerprint builder *)

\* _generate_id with the kind left out of the tag and of the hashed input
_generate_id_NoKind(content, content_type) ==
    <<"fp_">> \o sha256_16(content)

_generate_id(content, content_type) ==
    <<"fp_", content_type, "_">> \o sha256_16(<<content_type, ":">> \o content)

\* generate_fingerprint without the final else: an unknown kind returns the
\* builder-level record
generate_fingerprint_NoRaise(content, content_type, metadata, env, fs, now) ==
    LET base == [Blank EXCEPT
                    !.keys = {"fingerprint_id", "content_type", "timestamp", "metadata"},
                    !.fingerprint_id = _generate_id(content, content_type),
                    !.content_type = content_type,
                    !.timestamp = now,
                    !.metadata = metadata]
        ext == CASE content_type = "text"  -> _fingerprint_text(content, env)
                 [] content_type = "image" -> _fingerprint_image(content, fs, env)
                 [] content_type = "audio" -> _fingerprint_audio(content, fs)
                 [] content_type = "code"  -> _fingerprint_code(content)
                 [] OTHER -> Returned(Blank)
    IN  IF ext.status = "raise" THEN ext
        ELSE Returned(Update(base, ext.value))

generate_fingerprint(content, content_type, metadata, env, fs, now) ==
    LET base == [Blank EXCEPT
                    !.keys = {"fingerprint_id", "content_type", "timestamp", "metadata"},
                    !.fingerprint_id = _generate_id(content, content_type),
                    !.content_type = content_type,
                    !.timestamp = now,
                    !.metadata = metadata]
        ext == CASE content_type = "text"  -> _fingerprint_text(content, env)
                 [] content_type = "image" -> _fingerprint_image(content, fs, env)
                 [] content_type = "audio" -> _fingerprint_audio(content, fs)
                 [] content_type = "code"  -> _fingerprint_code(content)
                 [] OTHER -> Raised("ValueError: Unsupported content type")
    IN  IF ext.status = "raise" THEN ext
        ELSE Returned(Update(base, ext.value))

\* one call of generate_fingerprint on the request under study
GenerateFingerprint ==
    \E metadata \in Metas, te \in TextEnvs :
        LET out == generate_fingerprint(req.content, req.content_type, metadata,
                                        WithRuntime(te, unavailable), files, clock)
        IN  /\ last' = out
            /\ first' = IF first.status = "none" THEN out ELSE first
            /\ UNCHANGED <<files, clock, unavailable, req, scoreVars, matchVars, calls, appVars>>

\* the caller's files change between calls
WriteFile ==
    \E path \in Paths, blob \in Blobs \cup {Missing} :
        /\ files[path] # blob
        /\ files' = [files EXCEPT ![path] = blob]
        /\ UNCHANGED <<clock, unavailable, req, first, last, scoreVars, matchVars, calls, appVars>>

\* time passes
Tick ==
    /\ clock < MaxClock
    /\ clock' = clock + 1
    /\ UNCHANGED <<files, unavailable, req, first, last, scoreVars, matchVars, calls, appVars>>

-----------------------------------------------------------------------------
(* Store and rehydrate (API layer) *)

RowKeys == {"fingerprint_id", "content_type", "content_hash", "openai_embedding",
            "local_embedding", "perceptual_hashes", "audio_features",
            "code_features", "metadata"}

\* the dict rebuilt from the ContentFingerprint row that stores fp: absent
\* columns come back as None, content_hash defaults to "", every other
\* key of fp is dropped
Rehydrate(fp) ==
    [f \in DOMAIN Blank |->
        CASE f = "keys"  -> RowKeys
          [] f = "nulls" -> {k \in RowKeys \ {"content_hash"} : IsNone(fp, k)}
          [] OTHER       -> IF f \in RowKeys /\ f \in fp.keys THEN fp[f] ELSE Blank[f]]

-----------------------------------------------------------------------------
(* Similarity scorers *)

ScoreUnit == 64 * 75
NaN == 0 - ScoreUnit * ScoreUnit

AstWeightTenths == 4
TokenWeightTenths == 3
FuncWeightTenths == 3
HashBits == 64

RECURSIVE Dot(_, _)
Dot(a, b) == IF a = <<>> THEN 0 ELSE Head(a) * Head(b) + Dot(Tail(a), Tail(b))

\* np.linalg.norm(v)
Norm(v) == CHOOSE r \in 0..Dot(v, v) : r * r = Dot(v, v)

\* float(np.dot(a, b) / (np.linalg.norm(a) * np.linalg.norm(b))); 0/0 is nan.
\* "error" stands for the exception numpy raises on None or on unequal lengths
Cosine(a, b) ==
    IF Len(a) # Len(b) THEN "error"
    ELSE IF Norm(a) * Norm(b) = 0 THEN "nan"
    ELSE "number"

CosineValue(a, b) ==
    IF Norm(a) * Norm(b) = 0 THEN NaN
    ELSE (Dot(a, b) * ScoreUnit) \div (Norm(a) * Norm(b))

\* the cosine of the values two dicts hold under key k, 0.0 on any exception
CosineOrZero(d1, d2, k) ==
    IF IsNone(d1, k) \/ IsNone(d2, k) \/ Cosine(d1[k], d2[k]) = "error"
    THEN 0
    ELSE CosineValue(d1[k], d2[k])

_text_similarity(a, b) ==
    IF Has(a, "openai_embedding") /\ Has(b, "openai_embedding")
    THEN CosineOrZero(a, b, "openai_embedding")
    ELSE IF Has(a, "local_embedding") /\ Has(b, "local_embedding")
         THEN CosineOrZero(a, b, "local_embedding")
         ELSE 0

\* number of differing bits of two hexadecimal digits
BitDiff(x, y) ==
    Cardinality({i \in 0..3 : (x \div (2 ^ i)) % 2 # (y \div (2 ^ i)) % 2})

RECURSIVE Hamming(_, _)
\* hex_to_hash(h1) - hex_to_hash(h2)
Hamming(h1, h2) ==
    IF h1 = <<>> THEN 0
    ELSE BitDiff(Head(h1), Head(h2)) + Hamming(Tail(h1), Tail(h2))

Max(S) == CHOOSE m \in S : \A x \in S : x <= m

\* `not d.get("perceptual_hashes", {})`
NoHashes(d) == IsNone(d, "perceptual_hashes") \/ DOMAIN d.perceptual_hashes = {}

\* _image_similarity returning the worst match instead of the best
_image_similarity_Min(a, b) ==
    IF NoHashes(a) \/ NoHashes(b) THEN 0
    ELSE LET common == {"phash", "dhash", "ahash", "whash"}
                          \cap DOMAIN a.perceptual_hashes
                          \cap DOMAIN b.perceptual_hashes
             sim(t) == ScoreUnit - (Hamming(a.perceptual_hashes[t],
                                            b.perceptual_hashes[t]) * ScoreUnit)
                                   \div HashBits
             similarities == {Max({0, sim(t)}) : t \in common}
         IN  IF \E t \in common :
                    Len(a.perceptual_hashes[t]) # Len(b.perceptual_hashes[t])
             THEN 0
             ELSE IF similarities = {}
                  THEN 0
                  ELSE CHOOSE m \in similarities : \A x \in similarities : m <= x

_image_similarity(a, b) ==
    IF NoHashes(a) \/ NoHashes(b) THEN 0
    ELSE LET common == {"phash", "dhash", "ahash", "whash"}
                          \cap DOMAIN a.perceptual_hashes
                          \cap DOMAIN b.perceptual_hashes
             sim(t) == ScoreUnit - (Hamming(a.perceptual_hashes[t],
                                            b.perceptual_hashes[t]) * ScoreUnit)
                                   \div HashBits
             similarities == {Max({0, sim(t)}) : t \in common}
         IN  IF \E t \in common :
                    Len(a.perceptual_hashes[t]) # Len(b.perceptual_hashes[t])
             THEN 0
             ELSE IF similarities = {} THEN 0 ELSE Max(similarities)

\* `not d.get("mfcc_features", [])`
NoMfcc(d) == IsNone(d, "mfcc_features") \/ d.mfcc_features = <<>>

_audio_similarity(a, b) ==
    IF NoMfcc(a) \/ NoMfcc(b) THEN 0
    ELSE CosineOrZero(a, b, "mfcc_features")

\* d1.get(k) == d2.get(k) for a hash-valued key
SameOrBothNone(d1, d2, k) ==
    IF IsNone(d1, k) \/ IsNone(d2, k)
    THEN IsNone(d1, k) /\ IsNone(d2, k)
    ELSE d1[k] = d2[k]

\* set(d.get("functions", []))
FuncSet(d) == IF Has(d, "functions") THEN Range(d.functions) ELSE {}

\* _code_similarity dividing the overlap by len(funcs1) + len(funcs2)
_code_similarity_SumDenominator(a, b) ==
    IF (Has(a, "functions") /\ IsNone(a, "functions"))
         \/ (Has(b, "functions") /\ IsNone(b, "functions"))
    THEN 0
    ELSE LET ast_sim == IF SameOrBothNone(a, b, "ast_hash") THEN 1 ELSE 0
             token_sim == IF SameOrBothNone(a, b, "token_hash") THEN 1 ELSE 0
             inter == Cardinality(FuncSet(a) \cap FuncSet(b))
             total == Cardinality(FuncSet(a)) + Cardinality(FuncSet(b))
         IN  (AstWeightTenths * ast_sim * ScoreUnit) \div 10
               + (TokenWeightTenths * token_sim * ScoreUnit) \div 10
               + (FuncWeightTenths * inter * ScoreUnit) \div (10 * Max({total, 1}))

_code_similarity(a, b) ==
    IF (Has(a, "functions") /\ IsNone(a, "functions"))
         \/ (Has(b, "functions") /\ IsNone(b, "functions"))
    THEN 0     \* set(None) raises, the handler returns 0.0
    ELSE LET ast_sim == IF SameOrBothNone(a, b, "ast_hash") THEN 1 ELSE 0
             token_sim == IF SameOrBothNone(a, b, "token_hash") THEN 1 ELSE 0
             inter == Cardinality(FuncSet(a) \cap FuncSet(b))
             union == Cardinality(FuncSet(a) \cup FuncSet(b))
         IN  (AstWeightTenths * ast_sim * ScoreUnit) \div 10
               + (TokenWeightTenths * token_sim * ScoreUnit) \div 10
               + (FuncWeightTenths * inter * ScoreUnit) \div (10 * Max({union, 1}))

_calculate_similarity(a, b) ==
    CASE a.content_type = "text"  -> _text_similarity(a, b)
      [] a.content_type = "image" -> _image_similarity(a, b)
      [] a.content_type = "audio" -> _audio_similarity(a, b)
      [] a.content_type = "code"  -> _code_similarity(a, b)
      [] OTHER                    -> 0

\* AtLeast with the comparison made strict
AtLeast_Strict(similarity, t) == similarity # NaN /\ similarity > t

\* similarity >= threshold on floats: false when similarity is nan
AtLeast(similarity, t) == similarity # NaN /\ similarity >= t

-----------------------------------------------------------------------------
(* Match engine *)

Entry(db_item, similarity) == [item |-> db_item, similarity |-> similarity]

\* InsertDescending as a sort that is not stable: e goes before its equals
InsertDescending_Unstable(sorted, e) ==
    LET before == SelectSeq(sorted, LAMBDA x : x.similarity > e.similarity)
        after  == SelectSeq(sorted, LAMBDA x : x.similarity <= e.similarity)
    IN  before \o <<e>> \o after

\* where list.sort(key=similarity, reverse=True) puts e in an already sorted
\* list: behind every entry that does not score less (the sort is stable)
InsertDescending(sorted, e) ==
    LET before == SelectSeq(sorted, LAMBDA x : x.similarity >= e.similarity)
        after  == SelectSeq(sorted, LAMBDA x : x.similarity < e.similarity)
    IN  before \o <<e>> \o after

RECURSIVE SortDescending(_)
SortDescending(list) ==
    IF list = <<>> THEN <<>>
    ELSE InsertDescending(SortDescending(SubSeq(list, 1, Len(list) - 1)),
                          list[Len(list)])

\* for db_item in database: content_type differs, `continue`
SkipCandidate ==
    /\ pc = "loop"
    /\ idx <= Len(database)
    /\ database[idx].content_type # fingerprint.content_type
    /\ idx' = idx + 1
    /\ UNCHANGED <<fingerprint, database, threshold, matches, pc, buildVars, scoreVars, calls, appVars>>

\* for db_item in database: same content_type, score and maybe append
ScoreCandidate ==
    /\ pc = "loop"
    /\ idx <= Len(database)
    /\ database[idx].content_type = fingerprint.content_type
    /\ LET similarity == _calculate_similarity(fingerprint, database[idx])
       IN  matches' = IF AtLeast(similarity, threshold)
                      THEN Append(matches, Entry(database[idx], similarity))
                      ELSE matches
    /\ idx' = idx + 1
    /\ UNCHANGED <<fingerprint, database, threshold, pc, buildVars, scoreVars, calls, appVars>>

\* SortAndReturn that also filters the pool in place, as database[:] = matches
SortAndReturn_InPlace ==
    /\ pc = "loop"
    /\ idx > Len(database)
    /\ matches' = SortDescending(matches)
    /\ database' = [i \in 1..Len(matches) |-> SortDescending(matches)[i].item]
    /\ pc' = "done"
    /\ UNCHANGED <<fingerprint, threshold, idx, buildVars, scoreVars, calls, appVars>>

\* matches.sort(...); return matches
SortAndReturn ==
    /\ pc = "loop"
    /\ idx > Len(database)
    /\ matches' = SortDescending(matches)
    /\ pc' = "done"
    /\ UNCHANGED <<fingerprint, database, threshold, idx, buildVars, scoreVars, calls, appVars>>

-----------------------------------------------------------------------------
(* Scorer call *)

NotScored == [status |-> "none", value |-> 0]

CalculateSimilarity ==
    /\ score.status = "none"
    /\ score' = [status |-> "return", value |-> _calculate_similarity(fp1, fp2)]
    /\ UNCHANGED <<fp1, fp2, buildVars, matchVars, calls, appVars>>

-----------------------------------------------------------------------------
(* Input universes *)

FileSystems == [Paths -> Blobs \cup {Missing}]

EnvUp == [openai |-> TRUE, local_try |-> TRUE, local_except |-> TRUE,
          unavailable |-> {}]
EnvDown == [openai |-> FALSE, local_try |-> TRUE, local_except |-> TRUE,
            unavailable |-> {}]

\* every record generate_fingerprint can return for the bounded contents
Built ==
    {out.value : out \in
        {o \in {generate_fingerprint(c, k, {}, env, fs, 0) :
                    c \in Contents, k \in SupportedKinds,
                    env \in Envs, fs \in FileSystems} :
            o.status = "return"}}

\* image records of other origin handed to the scorer: one algorithm only,
\* no algorithm, a hash string of the wrong length
ForeignImages ==
    {[Blank EXCEPT !.keys = {"content_type", "perceptual_hashes"},
                   !.content_type = "image",
                   !.perceptual_hashes = h] :
        h \in {[phash |-> Hex16(15, 1)], [dhash |-> Hex16(3, 1)],
               [phash |-> <<15>>], [x \in {} |-> <<>>]}}

\* the same records as the API layer hands them back from its database
Rehydrated == {Rehydrate(fp) : fp \in Built}

FsDemo == [path \in Paths |-> IF path = cP1 THEN "png1" ELSE "png2"]

Build(content, content_type, env) ==
    generate_fingerprint(content, content_type, {}, env, FsDemo, 0).value

\* queries and candidates of the match engine: full and degraded text, parsed
\* and unparsed code, a stored code row, a degraded image
MatchFps ==
    {Build(cFox, "text", EnvUp), Build(cFox, "text", EnvDown),
     Build(cDog, "text", EnvUp), Build(cTwo, "text", EnvDown),
     Build(cFx, "code", EnvUp), Build(cBad, "code", EnvUp),
     Rehydrate(Build(cAsg, "code", EnvUp)), Build(cFox, "image", EnvUp)}

\* find_similar_content run alone: the for loop from position idx on
RECURSIVE FindLoop(_, _, _, _, _)
FindLoop(fingerprint_, database_, threshold_, i, matches_) ==
    IF i > Len(database_) THEN matches_
    ELSE IF database_[i].content_type # fingerprint_.content_type
         THEN FindLoop(fingerprint_, database_, threshold_, i + 1, matches_)
         ELSE LET similarity == _calculate_similarity(fingerprint_, database_[i])
              IN  FindLoop(fingerprint_, database_, threshold_, i + 1,
                           IF AtLeast(similarity, threshold_)
                           THEN Append(matches_, Entry(database_[i], similarity))
                           ELSE matches_)

find_similar_content(fingerprint_, database_, threshold_) ==
    SortDescending(FindLoop(fingerprint_, database_, threshold_, 1, <<>>))

Thresholds ==
    {0 - ScoreUnit, 0, (7 * ScoreUnit) \div 10, ScoreUnit,
     ScoreUnit + ScoreUnit \div 100}

SeqsUpTo(S, n) == UNION {[1..m -> S] : m \in 0..n}

-----------------------------------------------------------------------------
(* Concurrent calls on the global instance gnan *)

Threads == {"t1", "t2"}

\* a thread's frame: the call it makes, its arguments and its locals
IdleCall ==
    [op |-> "none", pc |-> "idle", content |-> <<>>, content_type |-> "",
     env |-> EnvUp, fingerprint |-> Blank, other |-> Blank, database |-> <<>>,
     threshold |-> 0, idx |-> 0, matches |-> <<>>, out |-> NotCalled,
     similarity |-> 0]

ConcFps ==
    {Build(cFox, "text", EnvUp), Build(cDog, "text", EnvUp),
     Build(cFx, "code", EnvUp)}

BuildCalls ==
    {[IdleCall EXCEPT !.op = "generate_fingerprint", !.pc = "start",
                      !.content = c, !.content_type = k, !.env = e] :
        c \in {cFox, cP1}, k \in {"text", "image", "video"}, e \in {EnvUp, EnvDown}}

ScoreCalls ==
    {[IdleCall EXCEPT !.op = "_calculate_similarity", !.pc = "start",
                      !.fingerprint = a, !.other = b] :
        a \in ConcFps, b \in ConcFps}

MatchCalls ==
    {[IdleCall EXCEPT !.op = "find_similar_content", !.pc = "loop",
                      !.fingerprint = Build(cFox, "text", EnvUp),
                      !.database = d, !.threshold = th, !.idx = 1] :
        d \in SeqsUpTo(ConcFps, MaxConcPool),
        th \in {(7 * ScoreUnit) \div 10, ScoreUnit}}

\* thread t runs generate_fingerprint
ConcGenerateFingerprint(t) ==
    /\ calls[t].op = "generate_fingerprint"
    /\ calls[t].pc = "start"
    /\ calls' = [calls EXCEPT
                    ![t].out = generate_fingerprint(
                                   calls[t].content, calls[t].content_type, {},
                                   WithRuntime(calls[t].env, unavailable),
                                   files, clock),
                    ![t].pc = "done"]
    /\ UNCHANGED <<buildVars, scoreVars, matchVars, appVars>>

\* thread t runs _calculate_similarity
ConcCalculateSimilarity(t) ==
    /\ calls[t].op = "_calculate_similarity"
    /\ calls[t].pc = "start"
    /\ calls' = [calls EXCEPT
                    ![t].similarity = _calculate_similarity(calls[t].fingerprint,
                                                            calls[t].other),
                    ![t].pc = "done"]
    /\ UNCHANGED <<buildVars, scoreVars, matchVars, appVars>>

\* thread t, find_similar_content: content_type differs, `continue`
ConcSkipCandidate(t) ==
    /\ calls[t].op = "find_similar_content"
    /\ calls[t].pc = "loop"
    /\ calls[t].idx <= Len(calls[t].database)
    /\ calls[t].database[calls[t].idx].content_type # calls[t].fingerprint.content_type
    /\ calls' = [calls EXCEPT ![t].idx = @ + 1]
    /\ UNCHANGED <<buildVars, scoreVars, matchVars, appVars>>

\* ConcScoreCandidate with `matches` kept on the instance: the entry lands in
\* the list of every call that is inside its loop
ConcScoreCandidate_SharedMatches(t) ==
    /\ calls[t].op = "find_similar_content"
    /\ calls[t].pc = "loop"
    /\ calls[t].idx <= Len(calls[t].database)
    /\ calls[t].database[calls[t].idx].content_type = calls[t].fingerprint.content_type
    /\ LET db_item == calls[t].database[calls[t].idx]
           similarity == _calculate_similarity(calls[t].fingerprint, db_item)
       IN  calls' = [u \in Threads |->
                       [calls[u] EXCEPT
                           !.matches = IF calls[u].pc = "loop"
                                          /\ AtLeast(similarity, calls[t].threshold)
                                       THEN Append(@, Entry(db_item, similarity))
                                       ELSE @,
                           !.idx = IF u = t THEN @ + 1 ELSE @]]
    /\ UNCHANGED <<buildVars, scoreVars, matchVars, appVars>>

\* thread t, find_similar_content: same content_type, score and maybe append
\* to the local list
ConcScoreCandidate(t) ==
    /\ calls[t].op = "find_similar_content"
    /\ calls[t].pc = "loop"
    /\ calls[t].idx <= Len(calls[t].database)
    /\ calls[t].database[calls[t].idx].content_type = calls[t].fingerprint.content_type
    /\ LET db_item == calls[t].database[calls[t].idx]
           similarity == _calculate_similarity(calls[t].fingerprint, db_item)
       IN  calls' = [calls EXCEPT
                       ![t].matches = IF AtLeast(similarity, calls[t].threshold)
                                      THEN Append(@, Entry(db_item, similarity))
                                      ELSE @,
                       ![t].idx = @ + 1]
    /\ UNCHANGED <<buildVars, scoreVars, matchVars, appVars>>

\* thread t, find_similar_content: matches.sort(...); return matches
ConcSortAndReturn(t) ==
    /\ calls[t].op = "find_similar_content"
    /\ calls[t].pc = "loop"
    /\ calls[t].idx > Len(calls[t].database)
    /\ calls' = [calls EXCEPT ![t].matches = SortDescending(@), ![t].pc = "done"]
    /\ UNCHANGED <<buildVars, scoreVars, matchVars, appVars>>

-----------------------------------------------------------------------------
(* N-gram signature of a text *)

NgramCap == 100

\* str.lower() on the characters of the bounded texts
Lower(s) == [i \in DOMAIN s |-> IF s[i] = "B" THEN "b" ELSE s[i]]

\* ' '.join(words)
RECURSIVE Join(_)
Join(words) ==
    IF words = <<>> THEN <<>>
    ELSE IF Len(words) = 1 THEN words[1]
    ELSE words[1] \o <<" ">> \o Join(Tail(words))

\* _extract_ngrams without the lower()
_extract_ngrams_NoLower(text_, n) ==
    LET words == Split(text_)
    IN  [i \in 1..(IF Len(words) - n + 1 > 0 THEN Len(words) - n + 1 ELSE 0) |->
            Join(SubSeq(words, i, i + n - 1))]

_extract_ngrams(text_, n) ==
    LET words == Split(Lower(text_))
    IN  [i \in 1..(IF Len(words) - n + 1 > 0 THEN Len(words) - n + 1 ELSE 0) |->
            Join(SubSeq(words, i, i + n - 1))]

\* ngrams[:100]
Capped(ngrams) ==
    SubSeq(ngrams, 1, IF Len(ngrams) < NgramCap THEN Len(ngrams) ELSE NgramCap)

\* a text of w words, alternately "a" and "B", single spaces between them
WordsText(w) ==
    [i \in 1..(IF w = 0 THEN 0 ELSE 2 * w - 1) |->
        IF i % 2 = 0 THEN " " ELSE IF ((i + 1) \div 2) % 2 = 0 THEN "B" ELSE "a"]

Texts ==
    SeqsUpTo({"a", "B", " "}, MaxTextLen)
        \cup {WordsText(w) : w \in (NgramCap - 1)..(NgramCap + 4)}

NoSignature == [status |-> "none", value |-> <<>>]

\* _fingerprint_text on source_text: the full record stores ngrams[:100]; when an
\* outbound call fails the fallback record has no ngram_signature
FingerprintText ==
    /\ ngram_signature.status = "none"
    /\ \E ok \in BOOLEAN :
          ngram_signature' =
              IF ok THEN [status |-> "stored",
                          value |-> Capped(_extract_ngrams(source_text, 3))]
                    ELSE [status |-> "absent", value |-> <<>>]
    /\ UNCHANGED <<source_text, engineVars, claimVars, siweVars, mintVars, attrVars, createVars>>

-----------------------------------------------------------------------------
(* Ownership claims (attribution protocol) *)

ClaimIds == {"claim_1", "claim_2"}
ClaimStatus == {"pending", "verified", "disputed", "resolved", "rejected"}
EvidenceKeys == {"timestamp_proof", "platform_verification", "digital_signature"}
Resolutions == {"uphold", "reject", "settle"}

NoCall == [op |-> "none", claim_id |-> "", outcome |-> "none"]
CallOf(op, claim_id, outcome) == [op |-> op, claim_id |-> claim_id, outcome |-> outcome]

\* _calculate_claim_confidence, in hundredths
_calculate_claim_confidence(is_creator, evidence, total_creations) ==
    LET confidence ==
            (IF is_creator THEN 80 ELSE 0)
          + (IF "timestamp_proof" \in evidence THEN 10 ELSE 0)
          + (IF "platform_verification" \in evidence THEN 5 ELSE 0)
          + (IF "digital_signature" \in evidence THEN 5 ELSE 0)
          + (IF total_creations > 10
             THEN (IF total_creations < 10 THEN total_creations ELSE 10)
             ELSE 0)
    IN  IF confidence < 100 THEN confidence ELSE 100

\* confidence_score > 0.95 on the float sum: every sum that is 0.95 on paper
\* (0.8 + 0.1 + 0.05, 0.8 + 0.05 + 0.1) comes out as 0.9500000000000001
AutoVerifies(confidence) == confidence >= 95

\* create_ownership_claim under a fresh claim id: ValueError when the
\* fingerprint or the claimant is unknown, else the claim is stored as
\* pending and, with confidence above 0.95, stored again as verified
CreateOwnershipClaim ==
    \E claim_id \in ClaimIds, known \in BOOLEAN, is_creator \in BOOLEAN,
       evidence \in SUBSET EvidenceKeys, total_creations \in {0, 11, 100} :
        /\ claim_store[claim_id] = "none"
        /\ IF ~known
           THEN /\ claim_call' = CallOf("create_ownership_claim", claim_id, "raise")
                /\ UNCHANGED claim_store
           ELSE /\ claim_store' =
                      [claim_store EXCEPT ![claim_id] =
                          IF AutoVerifies(_calculate_claim_confidence(
                                              is_creator, evidence, total_creations))
                          THEN "verified" ELSE "pending"]
                /\ claim_call' = CallOf("create_ownership_claim", claim_id, "return")
        /\ UNCHANGED <<engineVars, textVars, siweVars, mintVars, attrVars, createVars>>

\* challenge_ownership that skips the status test
ChallengeOwnership_NoGuard ==
    \E claim_id \in ClaimIds :
        /\ IF claim_store[claim_id] = "none"
           THEN /\ claim_call' = CallOf("challenge_ownership", claim_id, "raise")
                /\ UNCHANGED claim_store
           ELSE /\ claim_store' = [claim_store EXCEPT ![claim_id] = "disputed"]
                /\ claim_call' = CallOf("challenge_ownership", claim_id, "return")
        /\ UNCHANGED <<engineVars, textVars, siweVars, mintVars, attrVars, createVars>>

ChallengeOwnership ==
    \E claim_id \in ClaimIds :
        /\ IF claim_store[claim_id] \notin {"pending", "verified"}
           THEN \* not found, or "Cannot challenge claim with status ..."
                /\ claim_call' = CallOf("challenge_ownership", claim_id, "raise")
                /\ UNCHANGED claim_store
           ELSE /\ claim_store' = [claim_store EXCEPT ![claim_id] = "disputed"]
                /\ claim_call' = CallOf("challenge_ownership", claim_id, "return")
        /\ UNCHANGED <<engineVars, textVars, siweVars, mintVars, attrVars, createVars>>

ResolveDispute ==
    \E claim_id \in ClaimIds, resolution \in Resolutions :
        /\ IF claim_store[claim_id] # "disputed"
           THEN /\ claim_call' = CallOf("resolve_dispute", claim_id, "raise")
                /\ UNCHANGED claim_store
           ELSE /\ claim_store' =
                      [claim_store EXCEPT ![claim_id] =
                          IF resolution = "uphold" THEN "verified"
                          ELSE IF resolution = "reject" THEN "rejected"
                          ELSE "resolved"]
                /\ claim_call' = CallOf("resolve_dispute", claim_id, "return")
        /\ UNCHANGED <<engineVars, textVars, siweVars, mintVars, attrVars, createVars>>

\* the 365-day expiry set by setex removes the key
ExpireClaim ==
    \E claim_id \in ClaimIds :
        /\ claim_store[claim_id] # "none"
        /\ claim_store' = [claim_store EXCEPT ![claim_id] = "none"]
        /\ claim_call' = NoCall
        /\ UNCHANGED <<engineVars, textVars, siweVars, mintVars, attrVars, createVars>>

-----------------------------------------------------------------------------
(* Sign-in with Ethereum: nonces *)

Nonces == {"nonce_1", "nonce_2"}
SiweRequests == {"req_1", "req_2", "req_3"}

NoNonce == [issued |-> FALSE, used |-> FALSE]

\* get_nonce: a fresh AuthNonce row, used = False, committed
GetNonce ==
    \E nonce \in Nonces :
        /\ ~auth_nonces[nonce].issued
        /\ auth_nonces' = [auth_nonces EXCEPT ![nonce] = [issued |-> TRUE, used |-> FALSE]]
        /\ UNCHANGED <<siwe_requests, engineVars, textVars, claimVars, mintVars, attrVars, createVars>>

\* authenticate_siwe up to the nonce query: the message is parsed, the
\* signature verified, and the row with this nonce and used == False fetched
SiweQueryNonce(r) ==
    /\ siwe_requests[r].pc = "start"
    /\ \E verified \in BOOLEAN :
          siwe_requests' =
              [siwe_requests EXCEPT ![r].pc =
                  IF verified /\ auth_nonces[siwe_requests[r].nonce].issued
                              /\ ~auth_nonces[siwe_requests[r].nonce].used
                  THEN "found" ELSE "rejected"]
    /\ UNCHANGED <<auth_nonces, engineVars, textVars, claimVars, mintVars, attrVars, createVars>>

\* authenticate_siwe from the row on: used = True, commit, profile, token
SiweMarkUsed(r) ==
    /\ siwe_requests[r].pc = "found"
    /\ auth_nonces' = [auth_nonces EXCEPT ![siwe_requests[r].nonce].used = TRUE]
    /\ siwe_requests' = [siwe_requests EXCEPT ![r].pc = "authenticated"]
    /\ UNCHANGED <<engineVars, textVars, claimVars, mintVars, attrVars, createVars>>

-----------------------------------------------------------------------------
(* NFT certificate minting *)

MintTasks == {"task_1", "task_2", "task_3"}

\* background_tasks.add_task(mint_nft_background, ...): the next free task
Scheduled(tasks) ==
    IF \A t \in MintTasks : tasks[t] # "unscheduled" THEN tasks
    ELSE LET t == CHOOSE x \in MintTasks : tasks[x] = "unscheduled"
         IN  [tasks EXCEPT ![t] = "scheduled"]

\* mint_certificate for a certificate that does not exist yet (an existing
\* one is returned as it is)
MintCertificate ==
    \E auto_mint \in BOOLEAN :
        /\ mint_status = "none"
        /\ mint_status' = IF auto_mint THEN "pending" ELSE "created"
        /\ mint_tasks' = IF auto_mint THEN Scheduled(mint_tasks) ELSE mint_tasks
        /\ UNCHANGED <<chain_mints, engineVars, textVars, claimVars, siweVars, attrVars, createVars>>

\* retry_mint: 404 without a certificate, 400 when minted, else pending and
\* a new background task
RetryMint ==
    /\ mint_status \notin {"none", "minted"}
    /\ \E t \in MintTasks : mint_tasks[t] = "unscheduled"
    /\ mint_status' = "pending"
    /\ mint_tasks' = Scheduled(mint_tasks)
    /\ UNCHANGED <<chain_mints, engineVars, textVars, claimVars, siweVars, attrVars, createVars>>

\* mint_nft_background up to the upload: status "minting" is committed
\* whatever the status was; a missing fingerprint or a failed IPFS upload
\* ends the task with "failed"
BackgroundStart(t) ==
    /\ mint_tasks[t] = "scheduled"
    /\ \E prepared \in BOOLEAN :
          /\ mint_status' = IF prepared THEN "minting" ELSE "failed"
          /\ mint_tasks' = [mint_tasks EXCEPT ![t] = IF prepared THEN "uploaded" ELSE "done"]
    /\ UNCHANGED <<chain_mints, engineVars, textVars, claimVars, siweVars, attrVars, createVars>>

\* mint_nft_background from `await mint_on_blockchain(...)` on
BackgroundMint(t) ==
    /\ mint_tasks[t] = "uploaded"
    /\ chain_mints' = chain_mints + 1
    /\ \E success \in BOOLEAN :
          mint_status' = IF success THEN "minted" ELSE "failed"
    /\ mint_tasks' = [mint_tasks EXCEPT ![t] = "done"]
    /\ UNCHANGED <<engineVars, textVars, claimVars, siweVars, attrVars, createVars>>

-----------------------------------------------------------------------------
(* Background similarity check *)

\* the texts whose fingerprints are stored: fox/dog score 0.96, fox/p1 and
\* dog/"a b" 0.8, the other pairs 0.6 or 0
RowContents == {cFox, cDog, cTwo, cP1}

DetectionThreshold == (7 * ScoreUnit) \div 10
HighSimilarity == (85 * ScoreUnit) \div 100

\* db.query(ContentFingerprint).filter(fingerprint_id == fid).first()
RowByFingerprintId(rows, fid) ==
    CHOOSE j \in DOMAIN rows :
        /\ rows[j].data.fingerprint_id = fid
        /\ \A k \in DOMAIN rows : rows[k].data.fingerprint_id = fid => j <= k

\* create_fingerprint as far as the similarity check needs it: the row is
\* inserted (fingerprint_id is unique, a second row with the id fails) and the
\* background task is scheduled
InsertFingerprintRow ==
    \E content \in RowContents :
        LET data == Build(content, "text", EnvUp)
        IN  /\ Len(content_rows) < MaxRows
            /\ \A j \in DOMAIN content_rows :
                   content_rows[j].data.fingerprint_id # data.fingerprint_id
            /\ content_rows' = Append(content_rows,
                   [id |-> Len(content_rows) + 1, data |-> data,
                    created_at |-> attr_clock, matches_found |-> 0])
            /\ pending_checks' = pending_checks \cup {Len(content_rows) + 1}
            /\ UNCHANGED <<attributions, attr_clock, engineVars, textVars,
                           claimVars, siweVars, mintVars, createVars>>

AttrTick ==
    /\ attr_clock < MaxAttrClock
    /\ attr_clock' = attr_clock + 1
    /\ UNCHANGED <<content_rows, attributions, pending_checks, engineVars,
                   textVars, claimVars, siweVars, mintVars, createVars>>

\* the matches check_for_similar_content(fingerprint_data, content_id) looks
\* at: rows of the same type other than content_id, scored through
\* find_similar_content at 0.7 and kept when similarity_score > 0.85
HighMatches(rows, content_id) ==
    LET existing == SelectSeq(rows, LAMBDA r :
                        r.data.content_type = rows[content_id].data.content_type
                          /\ r.id # content_id)
        database_fingerprints == [k \in DOMAIN existing |-> Rehydrate(existing[k].data)]
        similar_content == find_similar_content(rows[content_id].data,
                                                database_fingerprints,
                                                DetectionThreshold)
    IN  {[original_content_id |->
              RowByFingerprintId(rows, similar_content[k].item.fingerprint_id),
          similarity_score |-> similar_content[k].similarity,
          detected_for |-> content_id] :
            k \in {k \in DOMAIN similar_content :
                     similar_content[k].similarity > HighSimilarity}}

\* check_for_similar_content comparing created_at with <=
CheckForSimilarContent_NotStrict(content_id) ==
    /\ content_id \in pending_checks
    /\ LET new == {a \in HighMatches(content_rows, content_id) :
                      content_rows[a.original_content_id].created_at
                          <= content_rows[content_id].created_at}
       IN  /\ attributions' = attributions \cup new
           /\ content_rows' =
                  [j \in DOMAIN content_rows |->
                      [content_rows[j] EXCEPT !.matches_found =
                          @ + Cardinality({a \in new : a.original_content_id = j})]]
    /\ pending_checks' = pending_checks \ {content_id}
    /\ UNCHANGED <<attr_clock, engineVars, textVars, claimVars, siweVars, mintVars, createVars>>

\* the whole background task for the row content_id
CheckForSimilarContent(content_id) ==
    /\ content_id \in pending_checks
    /\ LET new == {a \in HighMatches(content_rows, content_id) :
                      content_rows[a.original_content_id].created_at
                          < content_rows[content_id].created_at}
       IN  /\ attributions' = attributions \cup new
           /\ content_rows' =
                  [j \in DOMAIN content_rows |->
                      [content_rows[j] EXCEPT !.matches_found =
                          @ + Cardinality({a \in new : a.original_content_id = j})]]
    /\ pending_checks' = pending_checks \ {content_id}
    /\ UNCHANGED <<attr_clock, engineVars, textVars, claimVars, siweVars, mintVars, createVars>>

-----------------------------------------------------------------------------
(* create_fingerprint: rows and the creator's count *)

CreateRequests == {"post_1", "post_2", "post_3"}

NoCreator == [exists |-> FALSE, total_creations |-> 0]

\* gnan.generate_fingerprint and the query for the demo creator; an
\* exception of the engine ends the request with status 500
QueryCreator(r) ==
    /\ create_requests[r].pc = "start"
    /\ \E generated \in BOOLEAN :
          create_requests' =
              [create_requests EXCEPT ![r] =
                  IF generated
                  THEN [@ EXCEPT !.pc = IF creator_row.exists THEN "creator" ELSE "no_creator"]
                  ELSE [@ EXCEPT !.pc = "failed"]]
    /\ UNCHANGED <<creator_row, fingerprint_rows, engineVars, textVars, claimVars,
                   siweVars, mintVars, attrVars>>

\* `if not creator:` db.add(creator), commit, refresh; email is unique, so
\* the commit raises when another request has created the row meanwhile
CreateCreator(r) ==
    /\ create_requests[r].pc = "no_creator"
    /\ IF creator_row.exists
       THEN /\ create_requests' = [create_requests EXCEPT ![r].pc = "failed"]
            /\ UNCHANGED creator_row
       ELSE /\ creator_row' = [exists |-> TRUE, total_creations |-> 0]
            /\ create_requests' = [create_requests EXCEPT ![r].pc = "creator"]
    /\ UNCHANGED <<fingerprint_rows, engineVars, textVars, claimVars, siweVars,
                   mintVars, attrVars>>

\* db.add(content_fingerprint), commit, refresh; the commit raises on a
\* fingerprint_id that is already stored, and then no row is kept
InsertContentFingerprint(r) ==
    /\ create_requests[r].pc = "creator"
    /\ \E committed \in BOOLEAN :
          /\ fingerprint_rows' = IF committed THEN fingerprint_rows + 1 ELSE fingerprint_rows
          /\ create_requests' =
                 [create_requests EXCEPT ![r].pc = IF committed THEN "inserted" ELSE "failed"]
    /\ UNCHANGED <<creator_row, engineVars, textVars, claimVars, siweVars, mintVars,
                   attrVars>>

\* the read of `creator.total_creations += 1`: the commit expired the
\* creator object, so the attribute is loaded from the database here
LoadTotalCreations(r) ==
    /\ create_requests[r].pc = "inserted"
    /\ create_requests' =
           [create_requests EXCEPT ![r] =
               [pc |-> "loaded", total_creations |-> creator_row.total_creations]]
    /\ UNCHANGED <<creator_row, fingerprint_rows, engineVars, textVars, claimVars,
                   siweVars, mintVars, attrVars>>

\* the write of `creator.total_creations += 1` and db.commit(): the value
\* loaded plus one is stored; a commit that raises leaves the count as it was
CommitTotalCreations(r) ==
    /\ create_requests[r].pc = "loaded"
    /\ \E committed \in BOOLEAN :
          /\ creator_row' =
                 IF committed
                 THEN [creator_row EXCEPT !.total_creations =
                                              create_requests[r].total_creations + 1]
                 ELSE creator_row
          /\ create_requests' =
                 [create_requests EXCEPT ![r].pc = IF committed THEN "done" ELSE "failed"]
    /\ UNCHANGED <<fingerprint_rows, engineVars, textVars, claimVars, siweVars, mintVars,
                   attrVars>>

-----------------------------------------------------------------------------
(* Specifications *)

BuildIdle ==
    /\ files = [path \in Paths |-> Missing]
    /\ clock = 0
    /\ unavailable = {}
    /\ req = [content |-> <<>>, content_type |-> ""]
    /\ first = NotCalled
    /\ last = NotCalled

ScoreIdle ==
    /\ fp1 = Blank
    /\ fp2 = Blank
    /\ score = NotScored

MatchIdle ==
    /\ fingerprint = Blank
    /\ database = <<>>
    /\ threshold = 0
    /\ idx = 0
    /\ matches = <<>>
    /\ pc = "idle"

ConcIdle == calls = [t \in Threads |-> IdleCall]

TextIdle ==
    /\ source_text = <<>>
    /\ ngram_signature = NoSignature

ClaimIdle ==
    /\ claim_store = [c \in ClaimIds |-> "none"]
    /\ claim_call = NoCall

SiweIdle ==
    /\ auth_nonces = [n \in Nonces |-> NoNonce]
    /\ siwe_requests = [r \in SiweRequests |-> [nonce |-> "", pc |-> "idle"]]

MintIdle ==
    /\ mint_status = "none"
    /\ mint_tasks = [t \in MintTasks |-> "unscheduled"]
    /\ chain_mints = 0

AttrIdle ==
    /\ content_rows = <<>>
    /\ attributions = {}
    /\ pending_checks = {}
    /\ attr_clock = 0

CreateIdle ==
    /\ creator_row = NoCreator
    /\ fingerprint_rows = 0
    /\ create_requests = [r \in CreateRequests |-> [pc |-> "idle", total_creations |-> 0]]

AppIdle == TextIdle /\ ClaimIdle /\ SiweIdle /\ MintIdle /\ AttrIdle /\ CreateIdle

EngineIdle == BuildIdle /\ ScoreIdle /\ MatchIdle /\ ConcIdle

\* the builder: repeated generate_fingerprint calls on one request while
\* files and time change
InitBuild ==
    /\ files \in FileSystems
    /\ clock = 0
    /\ unavailable \in Runtimes
    /\ req \in [content : Contents, content_type : Kinds]
    /\ first = NotCalled
    /\ last = NotCalled
    /\ ScoreIdle
    /\ MatchIdle
    /\ ConcIdle
    /\ AppIdle

NextBuild == GenerateFingerprint \/ WriteFile \/ Tick

SpecBuild == InitBuild /\ [][NextBuild]_vars

\* the scorers: one _calculate_similarity call on any two records
InitScore ==
    /\ fp1 \in Built \cup Rehydrated \cup ForeignImages
    /\ fp2 \in Built \cup Rehydrated \cup ForeignImages
    /\ score = NotScored
    /\ BuildIdle
    /\ MatchIdle
    /\ ConcIdle
    /\ AppIdle

NextScore == CalculateSimilarity

SpecScore == InitScore /\ [][NextScore]_vars

\* the match engine: one find_similar_content call
InitMatch ==
    /\ fingerprint \in MatchFps
    /\ database \in SeqsUpTo(MatchFps, MaxPool)
    /\ threshold \in Thresholds
    /\ idx = 1
    /\ matches = <<>>
    /\ pc = "loop"
    /\ BuildIdle
    /\ ScoreIdle
    /\ ConcIdle
    /\ AppIdle

NextMatch == SkipCandidate \/ ScoreCandidate \/ SortAndReturn

SpecMatch == InitMatch /\ [][NextMatch]_vars

\* two threads, each making one call on the shared instance, steps interleaved
InitConc ==
    /\ calls \in [Threads -> BuildCalls \cup ScoreCalls \cup MatchCalls]
    /\ files = FsDemo
    /\ clock = 0
    /\ unavailable = {}
    /\ req = [content |-> <<>>, content_type |-> ""]
    /\ first = NotCalled
    /\ last = NotCalled
    /\ ScoreIdle
    /\ MatchIdle
    /\ AppIdle

NextConc ==
    \E t \in Threads :
        \/ ConcGenerateFingerprint(t)
        \/ ConcCalculateSimilarity(t)
        \/ ConcSkipCandidate(t)
        \/ ConcScoreCandidate(t)
        \/ ConcSortAndReturn(t)

SpecConc == InitConc /\ [][NextConc]_vars

\* the n-gram signature: one _fingerprint_text call on any bounded text
InitText ==
    /\ source_text \in Texts
    /\ ngram_signature = NoSignature
    /\ EngineIdle
    /\ CreateIdle
    /\ AttrIdle
    /\ MintIdle
    /\ SiweIdle
    /\ ClaimIdle

NextText == FingerprintText

SpecText == InitText /\ [][NextText]_vars

\* the attribution protocol: any sequence of claim, challenge and resolution
InitClaims ==
    /\ claim_store = [c \in ClaimIds |-> "none"]
    /\ claim_call = NoCall
    /\ EngineIdle
    /\ CreateIdle
    /\ AttrIdle
    /\ MintIdle
    /\ SiweIdle
    /\ TextIdle

NextClaims ==
    CreateOwnershipClaim \/ ChallengeOwnership \/ ResolveDispute \/ ExpireClaim

SpecClaims == InitClaims /\ [][NextClaims]_vars

\* sign-in: nonces are issued while requests, each carrying one nonce, run
\* step by step against the shared database
InitSiwe ==
    /\ auth_nonces = [n \in Nonces |-> NoNonce]
    /\ siwe_requests \in [SiweRequests -> [nonce : Nonces, pc : {"start"}]]
    /\ EngineIdle
    /\ CreateIdle
    /\ AttrIdle
    /\ MintIdle
    /\ TextIdle
    /\ ClaimIdle

NextSiwe ==
    \/ GetNonce
    \/ \E r \in SiweRequests : SiweQueryNonce(r) \/ SiweMarkUsed(r)

SpecSiwe == InitSiwe /\ [][NextSiwe]_vars

\* one certificate: creation, retries and background tasks interleaved
InitMint ==
    /\ mint_status = "none"
    /\ mint_tasks = [t \in MintTasks |-> "unscheduled"]
    /\ chain_mints = 0
    /\ EngineIdle
    /\ CreateIdle
    /\ AttrIdle
    /\ TextIdle
    /\ ClaimIdle
    /\ SiweIdle

NextMint ==
    \/ MintCertificate
    \/ RetryMint
    \/ \E t \in MintTasks : BackgroundStart(t) \/ BackgroundMint(t)

SpecMint == InitMint /\ [][NextMint]_vars

\* the background check: rows are inserted as time passes and each row's
\* check runs once, whole, at any later moment
InitAttr ==
    /\ content_rows = <<>>
    /\ attributions = {}
    /\ pending_checks = {}
    /\ attr_clock = 0
    /\ EngineIdle
    /\ CreateIdle
    /\ TextIdle
    /\ ClaimIdle
    /\ SiweIdle
    /\ MintIdle

NextAttr ==
    \/ InsertFingerprintRow
    \/ AttrTick
    \/ \E content_id \in 1..MaxRows : CheckForSimilarContent(content_id)

SpecAttr == InitAttr /\ [][NextAttr]_vars

InitCreate ==
    /\ creator_row = NoCreator
    /\ fingerprint_rows = 0
    /\ create_requests = [r \in CreateRequests |-> [pc |-> "start", total_creations |-> 0]]
    /\ EngineIdle
    /\ TextIdle
    /\ ClaimIdle
    /\ SiweIdle
    /\ MintIdle
    /\ AttrIdle

NextCreate ==
    \E r \in CreateRequests :
        \/ QueryCreator(r)
        \/ CreateCreator(r)
        \/ InsertContentFingerprint(r)
        \/ LoadTotalCreations(r)
        \/ CommitTotalCreations(r)

SpecCreate == InitCreate /\ [][NextCreate]_vars

-----------------------------------------------------------------------------
(* Properties of the match engine (SpecMatch) *)

Count(list, x) == Cardinality({i \in DOMAIN list : list[i] = x})

ItemsOf(list) == [i \in DOMAIN list |-> list[i].item]

SameKind(x) == x.content_type = fingerprint.content_type

ScoreOf(x) == _calculate_similarity(fingerprint, x)

\* C1: when find_similar_content has returned, the result holds exactly the
\* pool entries of the query's kind whose score is a number >= threshold:
\* each such entry as often as the pool holds it, every other entry never,
\* and each with its score against the query.
C1_ExactFilter ==
    pc = "done" =>
        /\ \A i \in DOMAIN matches :
               matches[i].similarity = ScoreOf(matches[i].item)
        /\ \A x \in Range(database) \cup Range(ItemsOf(matches)) :
               Count(ItemsOf(matches), x) =
                   IF SameKind(x) /\ ScoreOf(x) # NaN /\ ScoreOf(x) >= threshold
                   THEN Count(database, x)
                   ELSE 0

\* a call that met a cross-kind candidate, a same-kind candidate below the
\* threshold and a candidate scoring exactly the threshold
C1_Witness ==
    /\ pc = "done"
    /\ \E x \in Range(database) : ~SameKind(x)
    /\ \E x \in Range(database) : SameKind(x) /\ ScoreOf(x) < threshold
    /\ \E i \in DOMAIN matches : matches[i].similarity = threshold

\* C2: the returned list is sorted non-increasing by score, and the entries
\* of one score are the pool's entries of that score in pool order.
C2_SortedStable ==
    pc = "done" =>
        /\ \A i \in DOMAIN matches : \A j \in DOMAIN matches :
               i < j => matches[i].similarity >= matches[j].similarity
        /\ \A k \in DOMAIN matches :
               ItemsOf(SelectSeq(matches,
                           LAMBDA m : m.similarity = matches[k].similarity))
                 = SelectSeq(database,
                           LAMBDA x : SameKind(x) /\ ScoreOf(x) = matches[k].similarity)

\* the sort moved a lower-scoring head of the pool behind two different
\* candidates of equal score
C2_Witness ==
    /\ pc = "done"
    /\ Len(matches) = 3
    /\ matches[1].similarity = matches[2].similarity
    /\ matches[1].item # matches[2].item
    /\ matches[3].similarity < matches[2].similarity
    /\ database[1] = matches[3].item

\* a bundle without the features its kind's scorer reads
LacksFeatures(x) ==
    CASE x.content_type = "text"  ->
            IsNone(x, "openai_embedding") /\ IsNone(x, "local_embedding")
      [] x.content_type = "image" -> NoHashes(x)
      [] x.content_type = "audio" -> NoMfcc(x)
      [] x.content_type = "code"  -> IsNone(x, "ast_hash") \/ IsNone(x, "token_hash")
      [] OTHER -> TRUE

\* C10: with a threshold > 0 no candidate that lacks its scorer's features
\* is in the result.
C10_BadCandidateExcluded ==
    (pc = "done" /\ threshold > 0) =>
        \A i \in DOMAIN matches : ~LacksFeatures(matches[i].item)

-----------------------------------------------------------------------------
(* Properties of the scorers (SpecScore) *)

Scored == score.status = "return"

AllZero(v) == \A i \in DOMAIN v : v[i] = 0

\* C3: two bundles of one kind that build can produce score within [0, 1].
C3_ScoreInUnitRange ==
    (Scored /\ fp1 \in Built /\ fp2 \in Built
            /\ fp1.content_type = fp2.content_type) =>
        (score.value >= 0 /\ score.value <= ScoreUnit)

\* C4: two records of different kinds that build can produce score exactly 0.
C4_CrossKindZero ==
    (Scored /\ fp1 \in Built /\ fp2 \in Built
            /\ fp1.content_type # fp2.content_type) =>
        score.value = 0

EmbeddingRead(b) ==
    IF Has(b, "openai_embedding") THEN b.openai_embedding ELSE b.local_embedding

C6_Symmetric ==
    (Scored /\ fp1 \in Built /\ fp2 \in Built) =>
        score.value = _calculate_similarity(fp2, fp1)

-----------------------------------------------------------------------------
(* Properties of the builder (SpecBuild) *)

\* d1.get(k) == d2.get(k)
SameValue(d1, d2, k) ==
    /\ IsNone(d1, k) = IsNone(d2, k)
    /\ ~IsNone(d1, k) => d1[k] = d2[k]

\* C7: two calls on one (content, kind) that both return give the same
\* fingerprint_id and the same content_hash.
C7_Deterministic ==
    (first.status = "return" /\ last.status = "return") =>
        /\ SameValue(first.value, last.value, "fingerprint_id")
        /\ SameValue(first.value, last.value, "content_hash")

\* C8: a call with a kind outside {text, image, audio, code} raises the
\* unsupported-kind error and returns no record, whatever the content.
C8_UnsupportedKindRaises ==
    (req.content_type \notin {"text", "image", "audio", "code"}
        /\ last.status # "none") =>
        /\ last.status = "raise"
        /\ last.exc = "ValueError: Unsupported content type"
        /\ last.value.keys = {}

\* a call with kind "video" has raised
C8_Witness ==
    /\ req.content_type = "video"
    /\ last.status = "raise"
    /\ first.status = "raise"

\* C9: a call with kind text returns, and its record has content_hash, the
\* word and char counts and, when an embedding step failed, an error
\* indicator.
C9_TextNeverRaises ==
    (req.content_type = "text" /\ last.status # "none") =>
        /\ last.status = "return"
        /\ {"content_hash", "word_count", "char_count"} \subseteq last.value.keys
        /\ ("openai_embedding" \notin last.value.keys => "error" \in last.value.keys)

-----------------------------------------------------------------------------
(* Threshold extremes (SpecMatch) *)

\* C11: a threshold above 1 gives the empty list, a threshold <= 0 gives
\* every pool entry of the query's kind.
C11_ThresholdExtremes ==
    pc = "done" =>
        /\ threshold > ScoreUnit => matches = <<>>
        /\ threshold <= 0 =>
               \A x \in Range(database) :
                   Count(ItemsOf(matches), x) =
                       IF SameKind(x) THEN Count(database, x) ELSE 0

-----------------------------------------------------------------------------
(* Extractor failures (SpecBuild) *)

\* C12: a call with kind audio on a file that cannot be decoded raises and
\* returns no record.
C12_AudioDecodeFailureRaises ==
    [][(last' # last /\ req.content_type = "audio"
            /\ ~IsAudio(FileAt(files, req.content)))
          => (last'.status = "raise" /\ last'.value.keys = {})]_vars

\* C13: a call with kind code on a source that does not parse returns a
\* record with content_hash, line_count, char_count and an error indicator
\* and without ast_hash, token_hash or symbol lists.
C13_ParseFailureDegrades ==
    (req.content_type = "code" /\ ~Parses(req.content) /\ last.status # "none") =>
        /\ last.status = "return"
        /\ {"content_hash", "line_count", "char_count", "error"}
              \subseteq last.value.keys
        /\ last.value.keys
              \cap {"ast_hash", "token_hash", "functions", "classes", "imports"} = {}
        /\ last.value.content_hash = <<"md5:">> \o req.content
        /\ last.value.char_count = Len(req.content)
        /\ last.value.line_count =
              Cardinality({i \in DOMAIN req.content : req.content[i] = "\n"}) + 1
        /\ last.value.error # ""

\* the unparsable source `def (` has been fingerprinted as code
C13_Witness ==
    /\ req = [content |-> cBad, content_type |-> "code"]
    /\ last.status = "return"
    /\ "error" \in last.value.keys

\* C14: a call with kind image on a readable image in a runtime that lacks
\* one algorithm returns the hashes of every other algorithm.
C14_OtherHashesKept ==
    [][(last' # last /\ req.content_type = "image"
            /\ IsImage(FileAt(files, req.content)) /\ unavailable # {})
          => /\ last'.status = "return"
             /\ "perceptual_hashes" \in last'.value.keys
             /\ DOMAIN last'.value.perceptual_hashes = HashAlgorithms \ unavailable]_vars

-----------------------------------------------------------------------------
(* Renamed identifiers (SpecScore) *)

\* cFx and cFy are the same function with the parameter renamed from x to y
RenamedPair(a, b) ==
    /\ a.content_type = "code" /\ b.content_type = "code"
    /\ {"ast_hash", "token_hash"} \subseteq a.keys \cap b.keys
    /\ a.content_hash = md5(cFx)
    /\ b.content_hash = md5(cFy)

\* C15: two snippets that differ in one renamed parameter get equal AST
\* hashes and different token hashes, and score 0.4 + 0 + 0.3 = 0.7
C15_RenamedVariable ==
    (Scored /\ RenamedPair(fp1, fp2)) =>
        /\ fp1.ast_hash = fp2.ast_hash
        /\ fp1.token_hash # fp2.token_hash
        /\ score.value = (7 * ScoreUnit) \div 10

-----------------------------------------------------------------------------
(* Store and rehydrate round trip (SpecScore) *)

\* C16: a stored and rehydrated fingerprint scores against any query as the
\* fingerprint itself does
C16_RehydrateRoundTrip ==
    (Scored /\ fp1 \in Built /\ fp2 \in Built) =>
        _calculate_similarity(fp1, Rehydrate(fp2)) = score.value

-----------------------------------------------------------------------------
(* Builder-level fields (SpecBuild) *)

BuilderKeys == {"fingerprint_id", "content_type", "content_hash", "timestamp",
                "metadata"}

\* C17: every returned record has fingerprint_id, content_type equal to the
\* requested kind, content_hash, timestamp and metadata, and the id, kind,
\* timestamp and metadata are the builder's own values
C17_BuilderFieldsPresent ==
    last.status = "return" =>
        /\ BuilderKeys \subseteq last.value.keys
        /\ last.value.content_type = req.content_type
        /\ last.value.fingerprint_id = _generate_id(req.content, req.content_type)
        /\ last.value.timestamp \in 0..clock
        /\ last.value.metadata \in Metas

-----------------------------------------------------------------------------
(* Fingerprint ids across kinds (SpecScore) *)

\* C18: two built fingerprints with equal ids have equal kinds, so one
\* content fingerprinted under two kinds gets two different ids
C18_EqualIdsEqualKinds ==
    (fp1 \in Built /\ fp2 \in Built /\ fp1.fingerprint_id = fp2.fingerprint_id) =>
        fp1.content_type = fp2.content_type

\* one content (same content_hash) built as text and as code, ids differ,
\* and the scorer has run on the pair
C18_Witness ==
    /\ Scored
    /\ fp1 \in Built /\ fp2 \in Built
    /\ fp1.content_type = "text" /\ fp2.content_type = "code"
    /\ Has(fp1, "content_hash") /\ Has(fp2, "content_hash")
    /\ fp1.content_hash = fp2.content_hash
    /\ fp1.fingerprint_id # fp2.fingerprint_id

-----------------------------------------------------------------------------
(* Frame of the match engine (SpecMatch) *)

\* C19: no step of find_similar_content, the scorer calls it makes included,
\* changes the query fingerprint, a candidate, or the pool and its order
C19_InputsUnchanged ==
    [][fingerprint' = fingerprint /\ database' = database]_vars

\* a finished call that kept some candidates and dropped others
C19_Witness ==
    /\ pc = "done"
    /\ matches # <<>>
    /\ Len(matches) < Len(database)

-----------------------------------------------------------------------------
(* Independence of concurrent calls (SpecConc) *)

\* what the call of frame c returns when it runs alone on the same inputs
RunsAloneAs(c) ==
    CASE c.op = "generate_fingerprint" ->
             c.out = generate_fingerprint(c.content, c.content_type, {},
                                          WithRuntime(c.env, unavailable),
                                          files, clock)
      [] c.op = "_calculate_similarity" ->
             c.similarity = _calculate_similarity(c.fingerprint, c.other)
      [] c.op = "find_similar_content" ->
             c.matches = find_similar_content(c.fingerprint, c.database, c.threshold)
      [] OTHER -> TRUE

\* C20: under every interleaving of two calls on the shared instance, each
\* finished call has returned what it returns when run alone
C20_CallsIndependent ==
    \A t \in Threads : calls[t].pc = "done" => RunsAloneAs(calls[t])

\* one find_similar_content has returned matches while the other is in the
\* middle of its loop holding matches of its own
C20_Witness ==
    /\ calls["t1"].op = "find_similar_content" /\ calls["t1"].pc = "done"
    /\ calls["t1"].matches # <<>>
    /\ calls["t2"].op = "find_similar_content" /\ calls["t2"].pc = "loop"
    /\ calls["t2"].idx > 1 /\ calls["t2"].idx <= Len(calls["t2"].database)
    /\ calls["t2"].matches # <<>>

-----------------------------------------------------------------------------
(* Text scorer: choice of embeddings (SpecScore) *)

\* the cosine of the embeddings under key k, as the scorer computes it when
\* both are there
EmbeddingCosine(d1, d2, k) ==
    IF Len(d1[k]) # Len(d2[k]) THEN 0 ELSE CosineValue(d1[k], d2[k])

\* C21: the text scorer takes the primary embeddings when both bundles hold
\* one, else the secondary ones when both hold one, else returns 0; a primary
\* stored as null counts as missing
C21_TextFallback ==
    (Scored /\ fp1.content_type = "text") =>
        score.value =
            IF ~IsNone(fp1, "openai_embedding") /\ ~IsNone(fp2, "openai_embedding")
            THEN EmbeddingCosine(fp1, fp2, "openai_embedding")
            ELSE IF ~IsNone(fp1, "local_embedding") /\ ~IsNone(fp2, "local_embedding")
                 THEN EmbeddingCosine(fp1, fp2, "local_embedding")
                 ELSE 0

-----------------------------------------------------------------------------
(* Code scorer: the weighted sum (SpecScore) *)

\* both records come from code that parsed
ParsedCode(d) ==
    /\ d.content_type = "code"
    /\ {"ast_hash", "token_hash", "functions", "classes"} \subseteq d.keys \ d.nulls

NameSet(d) == Range(d.functions) \cup Range(d.classes)

\* C22: the code score is 0.4*[ast hashes equal] + 0.3*[token hashes equal]
\* + 0.3*J with J the Jaccard similarity of the function and class names
C22_CodeWeightedSum ==
    (Scored /\ ParsedCode(fp1) /\ ParsedCode(fp2)) =>
        LET inter == Cardinality(NameSet(fp1) \cap NameSet(fp2))
            union == Cardinality(NameSet(fp1) \cup NameSet(fp2))
        IN  score.value =
                (IF fp1.ast_hash = fp2.ast_hash THEN (4 * ScoreUnit) \div 10 ELSE 0)
              + (IF fp1.token_hash = fp2.token_hash THEN (3 * ScoreUnit) \div 10 ELSE 0)
              + (3 * inter * ScoreUnit) \div (10 * (IF union = 0 THEN 1 ELSE union))

-----------------------------------------------------------------------------
(* Image scorer (SpecScore) *)

HashesOf(d) ==
    IF IsNone(d, "perceptual_hashes") THEN {} ELSE DOMAIN d.perceptual_hashes

SharedAlgorithms(d1, d2) == HashAlgorithms \cap HashesOf(d1) \cap HashesOf(d2)

WellFormed(d1, d2) ==
    \A t \in SharedAlgorithms(d1, d2) :
        Len(d1.perceptual_hashes[t]) = Len(d2.perceptual_hashes[t])

\* max(0, 1 - hammingDistance/64) for algorithm t
HammingSimilarity(d1, d2, t) ==
    LET sim == ScoreUnit
                 - (Hamming(d1.perceptual_hashes[t], d2.perceptual_hashes[t])
                      * ScoreUnit) \div 64
    IN  IF sim < 0 THEN 0 ELSE sim

\* C23: the image score is the largest Hamming similarity over the
\* algorithms both bundles hold, 0 when they share none, and a malformed
\* hash string gives a returned 0, not an exception
C23_ImageBestMatch ==
    (Scored /\ fp1.content_type = "image") =>
        IF SharedAlgorithms(fp1, fp2) = {} \/ ~WellFormed(fp1, fp2)
        THEN score.value = 0
        ELSE /\ \E t \in SharedAlgorithms(fp1, fp2) :
                    score.value = HammingSimilarity(fp1, fp2, t)
             /\ \A t \in SharedAlgorithms(fp1, fp2) :
                    score.value >= HammingSimilarity(fp1, fp2, t)

\* two images with several shared algorithms that disagree, scored by the
\* best one
C23_Witness ==
    /\ Scored
    /\ fp1.content_type = "image"
    /\ Cardinality(SharedAlgorithms(fp1, fp2)) > 1
    /\ WellFormed(fp1, fp2)
    /\ \E t \in SharedAlgorithms(fp1, fp2) :
           HammingSimilarity(fp1, fp2, t) < score.value

-----------------------------------------------------------------------------
(* Token hash and whitespace (SpecScore) *)

\* the text a built record was made from
ContentOf(d) == Tail(d.content_hash)

WithoutWhitespace(s) == SelectSeq(s, LAMBDA c : c \notin Whitespace)

\* C24: two code strings that differ only in whitespace of any kind get the
\* same token_hash
C24_TokenHashIgnoresWhitespace ==
    (Scored /\ ParsedCode(fp1) /\ ParsedCode(fp2)
        /\ WithoutWhitespace(ContentOf(fp1)) = WithoutWhitespace(ContentOf(fp2))) =>
        fp1.token_hash = fp2.token_hash

-----------------------------------------------------------------------------
(* N-gram signature (SpecText) *)

Min2(a, b) == IF a < b THEN a ELSE b

\* C25: for a text of w words the stored ngram_signature holds the first
\* min(max(w-2, 0), 100) three-word windows in document order, each the
\* lower-cased words i..i+2 joined by single spaces
C25_NgramSignature ==
    ngram_signature.status = "stored" =>
        LET words == Split(source_text)
            w == Len(words)
            sig == ngram_signature.value
        IN  /\ Len(sig) = Min2(IF w - 2 > 0 THEN w - 2 ELSE 0, 100)
            /\ \A i \in DOMAIN sig :
                   sig[i] = Lower(words[i]) \o <<" ">> \o Lower(words[i + 1])
                              \o <<" ">> \o Lower(words[i + 2])

\* a text of more than 102 words whose stored list was cut to 100 windows,
\* upper-case words lowered
C25_Witness ==
    /\ ngram_signature.status = "stored"
    /\ Len(Split(source_text)) > 102
    /\ Len(ngram_signature.value) = 100
    /\ "B" \in Range(source_text)
    /\ ngram_signature.value[2] = <<"b", " ", "a", " ", "b">>

-----------------------------------------------------------------------------
(* Claim status moves (SpecClaims) *)

StatusMoves ==
    {<<"pending", "disputed">>, <<"verified", "disputed">>,
     <<"disputed", "verified">>, <<"disputed", "rejected">>,
     <<"disputed", "resolved">>}

\* C26: a stored claim starts as pending, or as verified when creation
\* auto-verifies it, and then moves only pending or verified -> disputed and
\* disputed -> verified, rejected or resolved; rejected and resolved are
\* never left; a challenge or resolution from any other status raises and
\* leaves the store as it was
C26_StatusMoves ==
    [][/\ \A c \in ClaimIds :
             (claim_store[c] # claim_store'[c] /\ claim_store'[c] # "none") =>
                 IF claim_store[c] = "none"
                 THEN claim_store'[c] \in {"pending", "verified"}
                 ELSE <<claim_store[c], claim_store'[c]>> \in StatusMoves
       /\ (claim_call'.op = "challenge_ownership"
             /\ claim_store[claim_call'.claim_id] \notin {"pending", "verified"})
            => (claim_call'.outcome = "raise" /\ claim_store' = claim_store)
       /\ (claim_call'.op = "resolve_dispute"
             /\ claim_store[claim_call'.claim_id] # "disputed")
            => (claim_call'.outcome = "raise" /\ claim_store' = claim_store)
      ]_vars

\* a challenge of a rejected claim was refused
C26_Witness ==
    /\ claim_call = CallOf("challenge_ownership", "claim_1", "raise")
    /\ claim_store["claim_1"] = "rejected"
    /\ claim_store["claim_2"] = "verified"

-----------------------------------------------------------------------------
(* Single use of a nonce (SpecSiwe) *)

Authenticated(nonce) ==
    {r \in SiweRequests :
        siwe_requests[r].nonce = nonce /\ siwe_requests[r].pc = "authenticated"}

\* C27: under every interleaving of authenticate_siwe requests each nonce
\* authenticates at most one request
C27_NonceSingleUse ==
    \A nonce \in Nonces : Cardinality(Authenticated(nonce)) <= 1

-----------------------------------------------------------------------------
(* A minted certificate stays minted (SpecMint) *)

\* C28: once mint_status is "minted" it never changes again and no further
\* on-chain mint is attempted
C28_MintedIsFinal ==
    [][mint_status = "minted" =>
          (mint_status' = "minted" /\ chain_mints' = chain_mints)]_vars

-----------------------------------------------------------------------------
(* Attributions of the background check (SpecAttr) *)

\* C29: an Attribution exists only for an original that scored above 0.85
\* against the new fingerprint and was created strictly before it, never for
\* the new fingerprint itself, and matches_found of every row counts the
\* attributions that name it
C29_AttributionOnlyForEarlierHighMatch ==
    /\ \A a \in attributions :
          /\ a.similarity_score > (85 * ScoreUnit) \div 100
          /\ a.similarity_score =
                 _calculate_similarity(content_rows[a.detected_for].data,
                     Rehydrate(content_rows[a.original_content_id].data))
          /\ content_rows[a.original_content_id].created_at
                 < content_rows[a.detected_for].created_at
          /\ a.original_content_id # a.detected_for
    /\ \A j \in DOMAIN content_rows :
          content_rows[j].matches_found =
              Cardinality({a \in attributions : a.original_content_id = j})

\* three rows whose checks have run: one attribution was made, and an
\* earlier row that scores between 0.7 and 0.85 against a later one got none
C29_Witness ==
    /\ pending_checks = {}
    /\ Len(content_rows) = 3
    /\ Cardinality(attributions) = 1
    /\ \E i, j \in DOMAIN content_rows :
          /\ content_rows[i].created_at < content_rows[j].created_at
          /\ _calculate_similarity(content_rows[j].data, Rehydrate(content_rows[i].data))
                 \in ((7 * ScoreUnit) \div 10)..((85 * ScoreUnit) \div 100)

-----------------------------------------------------------------------------
(* Creator statistics of create_fingerprint (SpecCreate) *)

\* C30: once every create_fingerprint request has returned, the creator's
\* total_creations equals the number of ContentFingerprint rows stored for
\* that creator
C30_TotalCreationsCountsRows ==
    (\A r \in CreateRequests : create_requests[r].pc \in {"done", "failed"})
        => creator_row.total_creations = fingerprint_rows

=============================================================================
